---- MODULE Spec2Model ----
(***************************************************************************)
(* A model of the plugin base class of the Reddit bot framework           *)
(* (src/core/baseclass.py) and of its one concrete plugin                 *)
(* (src/plugins/LeafeatorBot.py):                                          *)
(*   - the OAuth credential lifecycle (_oa_refresh, oa_refresh,            *)
(*     factory_reddit),                                                    *)
(*   - the unread-message poll (get_unread_messages),                      *)
(*   - the self-service ban command (standard_ban_procedure).              *)
(* Text is modelled as sequences of one-character strings so that the      *)
(* regular expression, lower() and the substring test are computed.        *)
(***************************************************************************)
EXTENDS Integers, Sequences, FiniteSets, TLC

VARIABLES
    \* ---- standard_ban_procedure ----
    message,        \* the praw message handed to standard_ban_procedure
    toggles,        \* [subreddit_banning_allowed, user_banning_allowed]
    database,       \* [userbans, subredditbans]: the rows of the ban tables
    calls,          \* collaborator calls of the last invocation, in order
    banOutcome,     \* "idle" | "returned" | an exception name
    banRuns,        \* invocations of standard_ban_procedure on this message
    \* ---- credential ----
    session,            \* self.session: None or the praw.Reddit object
    session_token,      \* the access token the session is bound to
    OA_REFRESH_TOKEN,
    OA_ACCESS_TOKEN,
    OA_VALID_UNTIL,
    now,                \* time()
    \* ---- control ----
    stack,              \* the frames of the running call, innermost last
    exc,                \* the exception the last frame to end was left by
    call,               \* the running or last outermost call, with the
                        \* credential as it was when the call was made
    stats,              \* what the running or last outermost call has done
    \* ---- inbox ----
    inbox,              \* per message: "absent", "unread" or "read"
    handled,            \* per message: invocations of on_new_message
    \* ---- content handling (LeafeatorBot) and to_update ----
    db_connected,       \* whether self.database is a store
    storage,            \* the store's storage table: thread ids of BOT_NAME
    updates,            \* the store's update table: <<fullname, bot, lifetime>>
    responses,          \* per thread: comments the plugin has posted in it
    last,               \* the last content operation: what it did
    steps,              \* content operations so far
    \* ---- configuration file ----
    config              \* the plugin's section of bot_config.ini: whether the
                        \* keys of check_values are there, and refresh_token

banVars == <<message, toggles, calls, banOutcome, banRuns>>
credVars == <<session, session_token, OA_REFRESH_TOKEN, OA_ACCESS_TOKEN, OA_VALID_UNTIL>>
ctlVars == <<stack, exc, call, stats>>
boxVars == <<inbox, handled>>
plugVars == <<db_connected, storage, updates, responses, last, steps>>

vars == <<message, toggles, database, calls, banOutcome, banRuns,
          session, session_token, OA_REFRESH_TOKEN, OA_ACCESS_TOKEN, OA_VALID_UNTIL,
          now, stack, exc, call, stats, inbox, handled,
          db_connected, storage, updates, responses, last, steps, config>>

\* Python's None, and the value of an attribute that was never assigned.
None == "None"
Unset == "Unset"
\* A number that was never assigned is the empty tuple, an assigned one <<n>>.
Unassigned == <<>>

(***************************************************************************)
(* Text                                                                    *)
(***************************************************************************)
S_ban == <<"b", "a", "n">>
S_BAN == <<"B", "A", "N">>
S_alice == <<"a", "l", "i", "c", "e">>
S_Alice == <<"A", "l", "i", "c", "e">>
S_bob == <<"b", "o", "b">>
S_dota2 == <<"d", "o", "t", "a", "2">>
S_Dota2 == <<"D", "o", "t", "a", "2">>
S_please == <<" ", "p", "l", "s">>
S_ancient == <<"a", "n", "c", "i", "e", "n", "t">>
S_necro == <<"n", "e", "c", "r", "o">>
S_apparition == <<"a", "p", "p", "a", "r", "i", "t", "i", "o", "n">>
S_leafeator == <<"l", "e", "a", "f", "e", "a", "t", "o", "r">>
S_leafeator_bot == <<"l", "e", "a", "f", "e", "a", "t", "o", "r", "-", "b", "o", "t">>
S_Leafeator_Bot == <<"L", "e", "a", "f", "e", "a", "t", "o", "r", "-", "B", "o", "t">>
S_Ancient_necro == <<"A", "n", "c", "i", "e", "n", "t", " ", "n", "e", "c", "r", "o">>
S_ancient_apparition_necro == <<"a", "n", "c", "i", "e", "n", "t", " ", "a", "p", "p", "a", "r", "i", "t", "i", "o", "n", " ", "n", "e", "c", "r", "o">>

\* str.lower() on one character, over the alphabet the model uses.
LowerChar(c) ==
    CASE c = "A" -> "a"
      [] c = "B" -> "b"
      [] c = "D" -> "d"
      [] c = "L" -> "l"
      [] c = "N" -> "n"
      [] c = "R" -> "r"
      [] c = "U" -> "u"
      [] OTHER -> c

\* str.lower()
Lower(s) == [i \in 1..Len(s) |-> LowerChar(s[i])]

\* The class [\d\w_] under re.UNICODE: letters, digits and the underscore.
WordChars == {"a", "b", "c", "d", "e", "i", "l", "n", "o", "p", "r", "s", "t", "u",
              "A", "B", "D", "N", "R", "U", "0", "2", "_"}

\* Python's "needle in hay" on strings.
Contains(hay, needle) ==
    \E i \in 0..(Len(hay) - Len(needle)) :
        SubSeq(hay, i + 1, i + Len(needle)) = needle

\* RE_BANMSG = re.compile(r'ban /([r|u])/([\d\w_]*)', re.UNICODE): whether the
\* fixed part of the pattern matches at position i. No IGNORECASE flag is
\* given, and the class [r|u] holds the bar as well.
MatchAt(body, i) ==
    /\ i + 6 <= Len(body)
    /\ SubSeq(body, i, i + 4) = S_ban \o <<" ", "/">>
    /\ body[i + 5] \in {"r", "|", "u"}
    /\ body[i + 6] = "/"

\* The greedy [\d\w_]* from position j: the longest run of word characters.
WordRun(body, j) ==
    LET ends == {k \in (j - 1)..Len(body) :
                    \A m \in j..k : body[m] \in WordChars}
    IN  SubSeq(body, j, CHOOSE k \in ends : \A k2 \in ends : k2 <= k)

\* RE_BANMSG.search(body): None, or the groups of the leftmost match.
Search(body) ==
    LET hits == {i \in 1..Len(body) : MatchAt(body, i)}
    IN  IF hits = {} THEN None
        ELSE LET i == CHOOSE h \in hits : \A h2 \in hits : h <= h2
             IN  <<body[i + 5], WordRun(body, i + 7)>>

(***************************************************************************)
(* standard_ban_procedure                                                  *)
(***************************************************************************)
\* self.BOT_NAME of the concrete plugin.
BOT_NAME == "LeafeatorBot"

NoDatabaseRows == [userbans |-> {}, subredditbans |-> {}]

\* One call to a collaborator: the store or message.reply.
Call(op, subject, ok) == [op |-> op, subject |-> subject, plugin |-> BOT_NAME, ok |-> ok]

\* The store after the calls that succeeded.
ApplyCalls(db, cs) ==
    [userbans |-> db.userbans \cup
        {<<cs[i].subject, cs[i].plugin>> : i \in {j \in 1..Len(cs) :
            cs[j].op = "add_userban_per_module" /\ cs[j].ok}},
     subredditbans |-> db.subredditbans \cup
        {<<cs[i].subject, cs[i].plugin>> : i \in {j \in 1..Len(cs) :
            cs[j].op = "add_subreddit_ban_per_module" /\ cs[j].ok}}]

\* The reply sent first, and the store written only when it went through.
BanAndReply_ReplyFirst(op, subject, replyOk) ==
    IF replyOk
    THEN [outcome |-> "returned",
          calls |-> <<Call("reply", subject, TRUE), Call(op, subject, TRUE)>>]
    ELSE [outcome |-> "HTTPException", calls |-> <<Call("reply", subject, FALSE)>>]

\* The store write followed by the reply (lines 229-230, 236-237); a reply
\* that raises ends the procedure after the write.
BanAndReply(op, subject, replyOk) ==
    [outcome |-> IF replyOk THEN "returned" ELSE "HTTPException",
     calls |-> <<Call(op, subject, TRUE), Call("reply", subject, replyOk)>>]

\* Lines 227-240: if human and user_banning_allowed ... elif subreddit_banning_allowed.
Branches(msg, human, sba, uba, replyOk) ==
    IF human /\ uba
    THEN BanAndReply("add_userban_per_module", msg.author, replyOk)
    ELSE IF sba
         THEN IF msg.subreddit = None
              THEN [outcome |-> "AttributeError", calls |-> <<>>]
              ELSE BanAndReply("add_subreddit_ban_per_module", msg.subreddit, replyOk)
         ELSE [outcome |-> "returned", calls |-> <<>>]

\* A type check with the two letters exchanged.
type_consistency_Swapped(sub, human) ==
    (Lower(sub) = <<"r">> /\ human) \/ (Lower(sub) = <<"u">> /\ ~human)

\* Line 225.
type_consistency(sub, human) ==
    (Lower(sub) = <<"r">> /\ ~human) \/ (Lower(sub) = <<"u">> /\ human)

\* Line 226.
Authorized(author, sub, result, human) ==
    author = Lower(result) /\ type_consistency(sub, human)

\* The pre-filter without the top-level gate.
Considered_IgnoresComment(msg, author) ==
    Contains(Lower(msg.body), author)

\* Line 218.
Considered(msg, author) ==
    ~msg.was_comment /\ Contains(Lower(msg.body), author)

\* Lines 214-240: the outcome and the collaborator calls of one invocation.
standard_ban_procedure(msg, sba, uba, replyOk) ==
    IF msg.author = None /\ msg.subreddit = None
    THEN [outcome |-> "AttributeError", calls |-> <<>>]
    ELSE
    LET human == msg.author # None
        author == IF human THEN Lower(msg.author) ELSE Lower(msg.subreddit)
    IN  IF ~Considered(msg, author)
        THEN [outcome |-> "returned", calls |-> <<>>]
        ELSE LET regex_result == Search(msg.body)
             IN  IF regex_result = None
                 THEN [outcome |-> "returned", calls |-> <<>>]
                 ELSE IF Authorized(author, <<regex_result[1]>>, regex_result[2], human)
                      THEN Branches(msg, human, sba, uba, replyOk)
                      ELSE [outcome |-> "returned", calls |-> <<>>]

(***************************************************************************)
(* Control: the call stack of the one thread that drives a plugin          *)
(***************************************************************************)
\* Attempts the retry decorator makes before it lets the error through.
MaxAttempts == 2
\* Frames the interpreter allows before it raises RecursionError.
RecursionLimit == 5
\* The clock stops here.
MaxNow == 3600

\* Line 77.
OA_TOKEN_DURATION == 3540

Tokens == {"t1", "t2", "t3"}
Reddit == "praw.Reddit"

Frame(fn, pc, force) ==
    [fn |-> fn, pc |-> pc, force |-> force, mtries |-> MaxAttempts, msgs |-> <<>>]

Top == stack[Len(stack)]
Running(fn, pc) == stack # <<>> /\ Top.fn = fn /\ Top.pc = pc

\* The innermost frame ends, normally (None) or by raising e.
Return(e) ==
    /\ stack' = SubSeq(stack, 1, Len(stack) - 1)
    /\ exc' = e

\* The innermost frame moves on.
Goto(f) ==
    /\ stack' = [stack EXCEPT ![Len(stack)] = f]
    /\ exc' = None

\* The innermost frame calls: the callee's frame is pushed, or the
\* interpreter raises RecursionError in the caller.
Invoke(caller, callee) ==
    IF Len(stack) < RecursionLimit
    THEN /\ stack' = Append([stack EXCEPT ![Len(stack)] = caller], callee)
         /\ exc' = None
    ELSE /\ stack' = [stack EXCEPT ![Len(stack)] = caller]
         /\ exc' = "RecursionError"

\* @retry(HTTPException): the error is retried while attempts are left.
Retries(e, mtries) == e = "HTTPException" /\ mtries > 1

\* e is raised in the body of the innermost, retry-wrapped frame: the
\* decorator runs the function again from its first line, or lets e through.
Raise(e, firstPc) ==
    IF Retries(e, Top.mtries)
    THEN Goto([Top EXCEPT !.mtries = @ - 1, !.pc = firstPc, !.msgs = <<>>])
    ELSE Return(e)

\* What an outermost call has done so far: token exchanges attempted, those
\* that raised HTTPException, other failures of lines 175-178, exchanges that
\* were denied, sessions rebuilt, the clock read at line 174, the places where
\* the poll was re-run, and where an AssertionError ended the poll with which
\* fetched messages left, and runs of _get_keys_manually.
NoStats ==
    [exchanges |-> 0, http |-> 0, other |-> 0, denied |-> 0, rebuilds |-> 0,
     t174 |-> Unassigned, retried |-> {}, asserted |-> None, left |-> {},
     bootstraps |-> 0]

\* No section of the configuration was read.
NoConfig == [keys |-> FALSE, refresh_token |-> Unset]
\* The section holds the keys of check_values and the refresh token.
CompleteConfig == [keys |-> TRUE, refresh_token |-> "refresh_token"]

Credential ==
    [session |-> session, session_token |-> session_token,
     OA_REFRESH_TOKEN |-> OA_REFRESH_TOKEN, OA_ACCESS_TOKEN |-> OA_ACCESS_TOKEN,
     OA_VALID_UNTIL |-> OA_VALID_UNTIL, now |-> now]

\* No call is running and the object was constructed.
Idle == stack = <<>> /\ ~(call.fn = "__init__" /\ exc # None)

StartCall(fn, force, frame) ==
    /\ Idle
    /\ stack' = <<frame>>
    /\ exc' = None
    /\ call' = [fn |-> fn, force |-> force, pre |-> Credential]
    /\ stats' = NoStats

(***************************************************************************)
(* _oa_refresh (lines 171-179), wrapped by @retry(HTTPException)           *)
(***************************************************************************)
\* An expiry test with the comparison reversed.
NeedsRefresh_Reversed(force, t, valid_until) ==
    IF force THEN TRUE ELSE t < valid_until[1]

\* Line 174.
NeedsRefresh(force, t, valid_until) ==
    IF force THEN TRUE ELSE t > valid_until[1]

\* The access token the platform issues next.
FreshToken == CHOOSE t \in Tokens : t # OA_ACCESS_TOKEN /\ t # session_token

\* Line 173: the attribute is missing, or the assertion fails.
OaRefreshAsserts ==
    /\ Running("_oa_refresh", "L173")
    /\ OA_REFRESH_TOKEN = Unset \/ session = None
    /\ Return(IF OA_REFRESH_TOKEN = Unset THEN "AttributeError" ELSE "AssertionError")
    /\ UNCHANGED <<credVars, now, call, stats, inbox, handled, database, banVars, plugVars, config>>

\* Line 174 with OA_VALID_UNTIL never assigned.
OaRefreshNoExpiry ==
    /\ Running("_oa_refresh", "L173")
    /\ OA_REFRESH_TOKEN # Unset /\ session # None
    /\ ~Top.force /\ OA_VALID_UNTIL = Unassigned
    /\ Return("AttributeError")
    /\ stats' = [stats EXCEPT !.t174 = <<now>>]
    /\ UNCHANGED <<credVars, now, call, inbox, handled, database, banVars, plugVars, config>>

CanTest ==
    /\ Running("_oa_refresh", "L173")
    /\ OA_REFRESH_TOKEN # Unset /\ session # None
    /\ Top.force \/ OA_VALID_UNTIL # Unassigned

\* Line 174 false: the token is still valid.
OaRefreshStillValid ==
    /\ CanTest
    /\ ~NeedsRefresh(Top.force, now, OA_VALID_UNTIL)
    /\ Return(None)
    /\ stats' = [stats EXCEPT !.t174 = <<now>>]
    /\ UNCHANGED <<credVars, now, call, inbox, handled, database, banVars, plugVars, config>>

\* Lines 175-179.
OaRefreshExchange ==
    /\ CanTest
    /\ NeedsRefresh(Top.force, now, OA_VALID_UNTIL)
    /\ OA_ACCESS_TOKEN' = FreshToken
    /\ OA_VALID_UNTIL' = <<now + OA_TOKEN_DURATION>>
    /\ session_token' = FreshToken
    /\ Return(None)
    /\ stats' = [stats EXCEPT !.t174 = <<now>>, !.exchanges = @ + 1]
    /\ UNCHANGED <<session, OA_REFRESH_TOKEN, now, call, inbox, handled, database, banVars, plugVars, config>>

\* Line 175 raises HTTPException.
OaRefreshExchangeFails ==
    /\ CanTest
    /\ NeedsRefresh(Top.force, now, OA_VALID_UNTIL)
    /\ Raise("HTTPException", "L173")
    /\ stats' = [stats EXCEPT !.t174 = <<now>>, !.exchanges = @ + 1, !.http = @ + 1]
    /\ UNCHANGED <<credVars, now, call, inbox, handled, database, banVars, plugVars, config>>

\* Line 175 raises an authorization error, which is no HTTPException.
OaRefreshExchangeDenied ==
    /\ CanTest
    /\ NeedsRefresh(Top.force, now, OA_VALID_UNTIL)
    /\ Raise("OAuthException", "L173")
    /\ stats' = [stats EXCEPT !.t174 = <<now>>, !.exchanges = @ + 1, !.other = @ + 1,
                             !.denied = @ + 1]
    /\ UNCHANGED <<credVars, now, call, inbox, handled, database, banVars, plugVars, config>>

\* Line 178 raises HTTPException after lines 176-177 were executed; the
\* session may or may not hold the new token by then.
OaRefreshBindFails ==
    /\ CanTest
    /\ NeedsRefresh(Top.force, now, OA_VALID_UNTIL)
    /\ OA_ACCESS_TOKEN' = FreshToken
    /\ OA_VALID_UNTIL' = <<now + OA_TOKEN_DURATION>>
    /\ session_token' \in {session_token, FreshToken}
    /\ Raise("HTTPException", "L173")
    /\ stats' = [stats EXCEPT !.t174 = <<now>>, !.exchanges = @ + 1, !.other = @ + 1]
    /\ UNCHANGED <<session, OA_REFRESH_TOKEN, now, call, inbox, handled, database, banVars, plugVars, config>>

(***************************************************************************)
(* oa_refresh (lines 181-187) and factory_reddit (lines 131-139)           *)
(***************************************************************************)
\* An except clause that catches every exception.
Caught_Any(e) == e # None

\* Line 185: except HTTPException.
Caught(e) == e = "HTTPException"

\* Line 184.
OaRefreshTry ==
    /\ Running("oa_refresh", "L184")
    /\ Invoke([Top EXCEPT !.pc = "L184r"], Frame("_oa_refresh", "L173", Top.force))
    /\ UNCHANGED <<credVars, now, call, stats, inbox, handled, database, banVars, plugVars, config>>

\* Line 184 returned.
OaRefreshTried ==
    /\ Running("oa_refresh", "L184r")
    /\ exc = None
    /\ Return(None)
    /\ UNCHANGED <<credVars, now, call, stats, inbox, handled, database, banVars, plugVars, config>>

\* Lines 185-186: HTTPException is caught and factory_reddit is called.
OaRefreshCatch ==
    /\ Running("oa_refresh", "L184r")
    /\ Caught(exc)
    /\ Invoke([Top EXCEPT !.pc = "L186r"], Frame("factory_reddit", "L133", TRUE))
    /\ UNCHANGED <<credVars, now, call, stats, inbox, handled, database, banVars, plugVars, config>>

\* Any other exception leaves oa_refresh, at line 184, 186 or 187.
OaRefreshPropagate ==
    /\ \/ Running("oa_refresh", "L184r") /\ exc # None /\ ~Caught(exc)
       \/ Running("oa_refresh", "L186r") /\ exc # None
    /\ Return(exc)
    /\ UNCHANGED <<credVars, now, call, stats, inbox, handled, database, banVars, plugVars, config>>

\* Line 187.
OaRefreshAgain ==
    /\ Running("oa_refresh", "L186r")
    /\ exc = None
    /\ Invoke([Top EXCEPT !.pc = "L187r"], Frame("_oa_refresh", "L173", Top.force))
    /\ UNCHANGED <<credVars, now, call, stats, inbox, handled, database, banVars, plugVars, config>>

\* Line 187 returned or raised.
OaRefreshEnd ==
    /\ Running("oa_refresh", "L187r")
    /\ Return(exc)
    /\ UNCHANGED <<credVars, now, call, stats, inbox, handled, database, banVars, plugVars, config>>

\* Lines 135-139: a new session, bound to no token, then oa_refresh(force=True).
FactoryReddit ==
    /\ Running("factory_reddit", "L133")
    /\ session' = Reddit
    /\ session_token' = Unset
    /\ Invoke([Top EXCEPT !.pc = "L139r"], Frame("oa_refresh", "L184", TRUE))
    /\ stats' = [stats EXCEPT !.rebuilds = @ + 1]
    /\ UNCHANGED <<OA_REFRESH_TOKEN, OA_ACCESS_TOKEN, OA_VALID_UNTIL, now, call,
                   inbox, handled, database, banVars, plugVars, config>>

\* Line 139 returned or raised.
FactoryRedditEnd ==
    /\ Running("factory_reddit", "L139r")
    /\ Return(exc)
    /\ UNCHANGED <<credVars, now, call, stats, inbox, handled, database, banVars, plugVars, config>>

(***************************************************************************)
(* The messages the ban procedure is checked on                            *)
(***************************************************************************)
Authors == {None, S_Alice, S_bob}
Subreddits == {None, S_dota2}
Keywords == {S_ban, S_BAN}
TypeLetters == {"r", "u", "R", "U", "|", "x"}
Identifiers == {S_alice, S_Alice, S_dota2, S_Dota2, S_bob, <<>>, S_alice \o <<"2">>}

Command(kw, x, y) == kw \o <<" ", "/", x, "/">> \o y

Commands == {Command(kw, x, y) : kw \in Keywords, x \in TypeLetters, y \in Identifiers}

\* A command alone, a command followed by text, text around it, two commands,
\* and bodies that hold no command.
Bodies ==
    Commands
    \cup {c \o S_please : c \in Commands}
    \cup {Command(S_ban, "u", S_bob) \o <<" ">> \o Command(S_ban, x, y) :
            x \in {"r", "u"}, y \in {S_alice, S_dota2}}
    \cup {Command(S_ban, x, y) \o <<" ">> \o Command(S_ban, "u", S_bob) :
            x \in {"r", "u"}, y \in {S_alice, S_dota2}}
    \cup {<<>>, S_alice, S_dota2 \o <<" ">> \o S_ban}

Messages ==
    [author : Authors, subreddit : Subreddits, body : Bodies, was_comment : BOOLEAN]

(***************************************************************************)
(* get_unread_messages (lines 189-200), wrapped by @retry(HTTPException)   *)
(***************************************************************************)
\* The messages that can arrive in the plugin's inbox: a well-formed ban
\* command of its sender, and a message that holds no command.
BanRequest ==
    [author |-> S_Alice, subreddit |-> None,
     body |-> Command(S_ban, "u", S_alice), was_comment |-> FALSE]
Greeting ==
    [author |-> S_bob, subreddit |-> None, body |-> S_alice, was_comment |-> FALSE]
PollMessages == {BanRequest, Greeting}
Listings == {<<BanRequest, Greeting>>, <<Greeting, BanRequest>>}

\* A listing that also returns the messages already read.
Unread_All(listing) ==
    LET Arrived(m) == inbox[m] # "absent"
    IN  SelectSeq(listing, Arrived)

\* session.get_unread(): the unread messages, in the order of the listing.
Unread(listing) ==
    LET IsUnread(m) == inbox[m] = "unread"
    IN  SelectSeq(listing, IsUnread)

\* A mark_as_read that leaves the message unread.
mark_as_read_Lost(inb, m) == inb

\* Line 197.
mark_as_read(inb, m) == [inb EXCEPT ![m] = "read"]

\* A handler that passes the message to standard_ban_procedure.
on_new_message_Bans(db, m) ==
    ApplyCalls(db, standard_ban_procedure(m, TRUE, TRUE, TRUE).calls)

\* LeafeatorBot.on_new_message: pass. The store after the handler ran.
on_new_message(db, m) == db

\* on_new_message is abstract in the base class: LeafeatorBot's returns, the
\* handler of another plugin may raise.
HandlerOutcomes == {"returned", "HTTPException", "AssertionError", "PluginError"}

\* An except clause for AssertionError that is missing.
RaiseInTry_Uncaught(e) == Raise(e, "L192")

\* What lines 194-200 do with an exception raised inside the try block:
\* AssertionError ends the cycle normally, anything else reaches the decorator.
RaiseInTry(e) ==
    IF e = "AssertionError" THEN Return(None) ELSE Raise(e, "L192")

\* The elements of a sequence.
Range(q) == {q[i] : i \in 1..Len(q)}

\* The record of an exception e raised at `at' (line 193, 195, 197 or 198)
\* for the messages m (one or none), with the messages `rest' not yet reached.
Noted(at, m, e, rest) ==
    IF e = "AssertionError" /\ at # "refresh"
    THEN [stats EXCEPT !.asserted = at, !.left = rest]
    ELSE IF Retries(e, Top.mtries)
         THEN [stats EXCEPT !.retried = @ \cup {[at |-> at, m |-> m]}]
         ELSE stats

\* Lines 192-193: hasattr(self, "session") holds since __init__ assigns it.
GumRefresh ==
    /\ Running("get_unread_messages", "L192")
    /\ Invoke([Top EXCEPT !.pc = "L193r"], Frame("oa_refresh", "L184", FALSE))
    /\ UNCHANGED <<credVars, now, call, stats, inbox, handled, database, banVars, plugVars, config>>

\* Line 193 returned.
GumRefreshed ==
    /\ Running("get_unread_messages", "L193r")
    /\ exc = None
    /\ Goto([Top EXCEPT !.pc = "L195"])
    /\ UNCHANGED <<credVars, now, call, stats, inbox, handled, database, banVars, plugVars, config>>

\* Line 193 raised, outside the try block.
GumRefreshRaised ==
    /\ Running("get_unread_messages", "L193r")
    /\ exc # None
    /\ Raise(exc, "L192")
    /\ stats' = Noted("refresh", {}, exc, {})
    /\ UNCHANGED <<credVars, now, call, inbox, handled, database, banVars, plugVars, config>>

\* Lines 195-196: the unread messages are fetched.
GumFetch ==
    /\ Running("get_unread_messages", "L195")
    /\ \E listing \in Listings :
        Goto([Top EXCEPT !.pc = "L196", !.msgs = Unread(listing)])
    /\ UNCHANGED <<credVars, now, call, stats, inbox, handled, database, banVars, plugVars, config>>

\* Lines 195-196: the fetch raises.
GumFetchFails ==
    /\ Running("get_unread_messages", "L195")
    /\ \E e \in {"HTTPException", "AssertionError"} :
        /\ RaiseInTry(e)
        /\ stats' = Noted("fetch", {}, e, {m \in PollMessages : inbox[m] = "unread"})
    /\ UNCHANGED <<credVars, now, call, inbox, handled, database, banVars, plugVars, config>>

\* Line 197.
GumMark ==
    /\ Running("get_unread_messages", "L196")
    /\ Top.msgs # <<>>
    /\ inbox' = mark_as_read(inbox, Head(Top.msgs))
    /\ Goto([Top EXCEPT !.pc = "L198"])
    /\ UNCHANGED <<credVars, now, call, stats, handled, database, banVars, plugVars, config>>

\* Line 197: mark_as_read raises.
GumMarkFails ==
    /\ Running("get_unread_messages", "L196")
    /\ Top.msgs # <<>>
    /\ \E e \in {"HTTPException", "AssertionError"} :
        /\ RaiseInTry(e)
        /\ stats' = Noted("mark", {Head(Top.msgs)}, e, Range(Tail(Top.msgs)))
    /\ UNCHANGED <<credVars, now, call, inbox, handled, database, banVars, plugVars, config>>

\* Line 198: the message is handed to the plugin's handler.
GumDispatch ==
    /\ Running("get_unread_messages", "L198")
    /\ handled' = [handled EXCEPT ![Head(Top.msgs)] = @ + 1]
    /\ database' = on_new_message(database, Head(Top.msgs))
    /\ \E o \in HandlerOutcomes :
        IF o = "returned"
        THEN /\ Goto([Top EXCEPT !.pc = "L196", !.msgs = Tail(@)])
             /\ stats' = stats
        ELSE /\ RaiseInTry(o)
             /\ stats' = Noted("dispatch", {Head(Top.msgs)}, o, Range(Tail(Top.msgs)))
    /\ UNCHANGED <<credVars, now, call, inbox, banVars, plugVars, config>>

\* Line 196: the loop is over.
GumEnd ==
    /\ Running("get_unread_messages", "L196")
    /\ Top.msgs = <<>>
    /\ Return(None)
    /\ UNCHANGED <<credVars, now, call, stats, inbox, handled, database, banVars, plugVars, config>>

(***************************************************************************)
(* __init__ (lines 91-103) and _get_keys_manually (lines 148-169)          *)
(***************************************************************************)
\* A bootstrap that does not write the configuration file.
persist_Forgotten(cfg, token) == cfg

\* Lines 165-168: the option is set and the file is written.
persist(cfg, token) == [cfg EXCEPT !.refresh_token = token]

\* Lines 92-93 and 103: a key of check_values is missing.
InitIncomplete ==
    /\ Running("__init__", "L91")
    /\ ~config.keys
    /\ Return("AttributeError")
    /\ UNCHANGED <<credVars, now, call, stats, inbox, handled, database, banVars, plugVars, config>>

\* Lines 97-98 and 101: the refresh token is in the configuration.
InitFromConfig ==
    /\ Running("__init__", "L91")
    /\ config.keys /\ config.refresh_token # Unset
    /\ OA_REFRESH_TOKEN' = config.refresh_token
    /\ Invoke([Top EXCEPT !.pc = "L101r"], Frame("factory_reddit", "L133", TRUE))
    /\ UNCHANGED <<session, session_token, OA_ACCESS_TOKEN, OA_VALID_UNTIL, now, call,
                   stats, inbox, handled, database, banVars, plugVars, config>>

\* Lines 99-100: it is not, and the keys are fetched with the operator's help.
InitBootstrap ==
    /\ Running("__init__", "L91")
    /\ config.keys /\ config.refresh_token = Unset
    /\ Invoke([Top EXCEPT !.pc = "L100r"], Frame("_get_keys_manually", "L152", TRUE))
    /\ stats' = [stats EXCEPT !.bootstraps = @ + 1]
    /\ UNCHANGED <<credVars, now, call, inbox, handled, database, banVars, plugVars, config>>

\* Line 100 returned, line 101.
InitBootstrapped ==
    /\ Running("__init__", "L100r")
    /\ exc = None
    /\ Invoke([Top EXCEPT !.pc = "L101r"], Frame("factory_reddit", "L133", TRUE))
    /\ UNCHANGED <<credVars, now, call, stats, inbox, handled, database, banVars, plugVars, config>>

\* Line 100 raised, or line 101 returned or raised.
InitEnd ==
    /\ \/ Running("__init__", "L100r") /\ exc # None
       \/ Running("__init__", "L101r")
    /\ Return(exc)
    /\ UNCHANGED <<credVars, now, call, stats, inbox, handled, database, banVars, plugVars, config>>

\* Lines 152-164: a session is made, the operator authorizes the application
\* and the code is exchanged for the refresh token.
GetKeys ==
    /\ Running("_get_keys_manually", "L152")
    /\ session' = Reddit
    /\ session_token' = Unset
    /\ OA_REFRESH_TOKEN' = "refresh_token"
    /\ Goto([Top EXCEPT !.pc = "L165"])
    /\ UNCHANGED <<OA_ACCESS_TOKEN, OA_VALID_UNTIL, now, call, stats, inbox, handled,
                   database, banVars, plugVars, config>>

\* Lines 152-163: the assertion fails, or the platform refuses or cannot be
\* reached; the session of line 155 was made unless the assertion failed.
GetKeysFails ==
    /\ Running("_get_keys_manually", "L152")
    /\ \E e \in {"AssertionError", "HTTPException", "OAuthException"} :
        /\ Return(e)
        /\ session' = IF e = "AssertionError" THEN session ELSE Reddit
    /\ UNCHANGED <<session_token, OA_REFRESH_TOKEN, OA_ACCESS_TOKEN, OA_VALID_UNTIL, now,
                   call, stats, inbox, handled, database, banVars, plugVars, config>>

\* Lines 165-168.
GetKeysPersist ==
    /\ Running("_get_keys_manually", "L165")
    /\ config' = persist(config, OA_REFRESH_TOKEN)
    /\ Goto([Top EXCEPT !.pc = "L169"])
    /\ UNCHANGED <<credVars, now, call, stats, inbox, handled, database, banVars, plugVars>>

\* Lines 166-168: the file cannot be written.
GetKeysPersistFails ==
    /\ Running("_get_keys_manually", "L165")
    /\ Return("OSError")
    /\ UNCHANGED <<credVars, now, call, stats, inbox, handled, database, banVars, plugVars, config>>

\* Line 169.
GetKeysRefresh ==
    /\ Running("_get_keys_manually", "L169")
    /\ Invoke([Top EXCEPT !.pc = "L169r"], Frame("oa_refresh", "L184", TRUE))
    /\ UNCHANGED <<credVars, now, call, stats, inbox, handled, database, banVars, plugVars, config>>

\* Line 169 returned or raised.
GetKeysEnd ==
    /\ Running("_get_keys_manually", "L169r")
    /\ Return(exc)
    /\ UNCHANGED <<credVars, now, call, stats, inbox, handled, database, banVars, plugVars, config>>

(***************************************************************************)
(* Content handling: __test_single_thing and to_update (baseclass.py),     *)
(* LeafeatorBot's handlers and general_action (LeafeatorBot.py)            *)
(***************************************************************************)
Threads == {"t3_a", "t3_b"}
\* thing.author is None for a deleted account; a user name is never empty.
NoAuthor == <<>>
ThingAuthors == {NoAuthor, S_bob, S_Leafeator_Bot}
\* An attribute the kind of object does not have.
NoText == <<>>

\* Submissions: thing.name is the thread id. A link post has no self text.
Submissions ==
    {[kind |-> "Submission", name |-> t, submission |-> t, is_self |-> self,
      selftext |-> text, body |-> NoText, author |-> a] :
        t \in Threads, a \in ThingAuthors,
        <<self, text>> \in {<<TRUE, <<>> >>, <<TRUE, S_Ancient_necro>>, <<FALSE, <<>> >>}}

\* Comments: thing.submission.name is the thread id.
Comments ==
    {[kind |-> "Comment", name |-> n[1], submission |-> n[2], is_self |-> FALSE,
      selftext |-> NoText, body |-> text, author |-> a] :
        n \in {<<"t1_c", "t3_a">>, <<"t1_e", "t3_b">>},
        a \in ThingAuthors,
        text \in {S_leafeator_bot, S_ancient_apparition_necro}}

Things == Submissions \cup Comments

\* An object that is neither a submission nor a comment.
OtherObject ==
    [kind |-> "Message", name |-> "t4_m", submission |-> None, is_self |-> FALSE,
     selftext |-> NoText, body |-> S_bob, author |-> S_bob]

\* What a plugin passes to to_update: a submission or a comment it has
\* posted, or something else.
ResponseObjects ==
    {[kind |-> "Submission", name |-> "t3_b", submission |-> "t3_b", is_self |-> TRUE,
      selftext |-> S_bob, body |-> NoText, author |-> S_Leafeator_Bot],
     [kind |-> "Comment", name |-> "t1_r", submission |-> "t3_a", is_self |-> FALSE,
      selftext |-> NoText, body |-> S_bob, author |-> S_Leafeator_Bot],
     OtherObject}

Lifetimes == {3600, 7200}

\* Python's truth value of a string.
Truthy(x) == x # <<>>

\* A classification that does not look at the self text.
test_single_thing_NoBodyTest(thing) ==
    IF thing.kind = "Submission"
    THEN IF thing.is_self THEN "execute_submission" ELSE "execute_link"
    ELSE "execute_comment"

\* Lines 247-255: the handler the thing is passed to.
test_single_thing(thing) ==
    IF thing.kind = "Submission"
    THEN IF thing.is_self /\ Truthy(thing.selftext) THEN "execute_submission"
         ELSE IF thing.is_self THEN "execute_titlepost"
         ELSE "execute_link"
    ELSE "execute_comment"

\* Whether word w stands at position i of text, letter case ignored.
WordAt(text, w, i) ==
    /\ i >= 1 /\ i + Len(w) - 1 <= Len(text)
    /\ SubSeq(Lower(text), i, i + Len(w) - 1) = w

\* The lookahead (?!.*(apparition)) at position k.
NoApparitionFrom(text, k) == \A j \in k..Len(text) : ~WordAt(text, S_apparition, j)

\* LeafeatorBot.REGEX.search(body) is not None (lines 11-13, re.IGNORECASE):
\* ancient(?!.*(apparition)).*necro(?!s), or necro.*ancient(?!.*(apparition)),
\* or leafeator-bot. The texts of the model hold no line break.
RegexSearch(text) ==
    \/ \E i \in 1..Len(text) :
        /\ WordAt(text, S_ancient, i)
        /\ NoApparitionFrom(text, i + Len(S_ancient))
        /\ \E j \in (i + Len(S_ancient))..Len(text) :
            /\ WordAt(text, S_necro, j)
            /\ ~WordAt(text, <<"s">>, j + Len(S_necro))
    \/ \E i \in 1..Len(text) :
        /\ WordAt(text, S_necro, i)
        /\ \E j \in (i + Len(S_necro))..Len(text) :
            /\ WordAt(text, S_ancient, j)
            /\ NoApparitionFrom(text, j + Len(S_ancient))
    \/ \E i \in 1..Len(text) : WordAt(text, S_leafeator_bot, i)

\* Line 31, second operand: the bound method display_name.lower is compared
\* with the strings of APPROVE and is never one of them.
NotInApprove == TRUE

\* What an operation did: how it ended, its calls of the platform and of the
\* store in order, and what it logged.
Did(outcome, cs, logged) == [outcome |-> outcome, calls |-> cs, logged |-> logged]

\* The points at which general_action can fail from outside: self.oauth.refresh
\* (line 45), session._add_comment (line 46), insert_into_storage (line 47).
Failures == {"none", "refresh", "post", "insert"}

\* self.oauth.refresh(), of the class Base: it returns or raises.
oauth_refresh(fail) == Call("refresh", None, fail # "refresh")

\* Lines 30-49. st is the storage table, fail the call that fails.
general_action(body, thing, is_comment, connected, st, fail) ==
    IF thing.author = NoAuthor THEN Did("AttributeError", <<>>, <<>>)
    ELSE IF Contains(Lower(thing.author), S_leafeator) /\ NotInApprove
    THEN Did("False", <<>>, <<>>)
    ELSE IF ~RegexSearch(body) THEN Did("False", <<>>, <<>>)
    ELSE LET thread_id == IF ~is_comment THEN thing.name ELSE thing.submission
             retrieve == Call("retrieve_thing", thread_id, TRUE)
             refresh == oauth_refresh(fail)
             post == Call("_add_comment", thing.name, fail # "post")
             insert == Call("insert_into_storage", thread_id, fail # "insert")
         IN  IF ~connected THEN Did("AttributeError", <<>>, <<>>)
             ELSE IF thread_id \in st THEN Did("False", <<retrieve>>, <<"info">>)
             ELSE IF ~refresh.ok THEN Did("HTTPException", <<retrieve, refresh>>, <<>>)
             ELSE IF ~post.ok THEN Did("HTTPException", <<retrieve, refresh, post>>, <<>>)
             ELSE IF ~insert.ok
                  THEN Did("DatabaseError", <<retrieve, refresh, post, insert>>, <<>>)
             ELSE Did("True", <<retrieve, refresh, post, insert>>, <<>>)

\* Lines 15-25.
execute_comment(comment, connected, st, fail) ==
    general_action(comment.body, comment, TRUE, connected, st, fail)
execute_submission(submission, connected, st, fail) ==
    general_action(submission.selftext, submission, FALSE, connected, st, fail)
execute_titlepost(title_only) == Did("None", <<>>, <<>>)
execute_link(link_submission) == Did("None", <<>>, <<>>)

\* The handler of that name, applied.
Execute(handler, thing, connected, st, fail) ==
    CASE handler = "execute_comment" -> execute_comment(thing, connected, st, fail)
      [] handler = "execute_submission" -> execute_submission(thing, connected, st, fail)
      [] handler = "execute_titlepost" -> execute_titlepost(thing)
      [] handler = "execute_link" -> execute_link(thing)

\* Lines 273-279. isinstance(praw.objects.Comment) is called with one
\* argument: whenever the first operand of `or' is false it raises TypeError.
to_update(response_object, lifetime, connected, insertOk) ==
    IF ~connected THEN Did("None", <<>>, <<"error">>)
    ELSE IF response_object.kind = "Submission"
    THEN LET insert == Call("insert_into_update", <<response_object.name, lifetime>>, insertOk)
         IN  Did(IF insertOk THEN "None" ELSE "DatabaseError", <<insert>>, <<>>)
    ELSE Did("TypeError", <<>>, <<>>)

\* The calls of operation op that went through.
Done(cs, op) == {cs[i].subject : i \in {k \in 1..Len(cs) : cs[k].op = op /\ cs[k].ok}}

NoOperation ==
    [op |-> "none", thing |-> None, lifetime |-> 0, handlers |-> <<>>,
     did |-> Did("None", <<>>, <<>>)]

\* No content was handled.
NoContentRun ==
    /\ db_connected = TRUE
    /\ storage = {}
    /\ updates = {}
    /\ responses = [t \in Threads |-> 0]
    /\ last = NoOperation
    /\ steps = 0

(***************************************************************************)
(* The environment and the callers                                         *)
(***************************************************************************)
\* A message arrives. The inbox is read at line 195 only, so arrivals are
\* taken there.
Arrive ==
    /\ Running("get_unread_messages", "L195")
    /\ \E m \in PollMessages :
        /\ inbox[m] = "absent"
        /\ inbox' = [inbox EXCEPT ![m] = "unread"]
    /\ UNCHANGED <<credVars, now, ctlVars, handled, database, banVars, plugVars, config>>

\* Time passes, to an instant just before, at or just after the expiry. The
\* clock is read at lines 174 and 177 only, so time passes there.
Tick ==
    /\ Running("_oa_refresh", "L173")
    /\ OA_VALID_UNTIL # Unassigned
    /\ \E d \in {-1, 0, 1} :
        /\ OA_VALID_UNTIL[1] + d > now
        /\ OA_VALID_UNTIL[1] + d <= MaxNow
        /\ now' = OA_VALID_UNTIL[1] + d
    /\ UNCHANGED <<credVars, ctlVars, inbox, handled, database, banVars, plugVars, config>>

\* The host or the plugin calls oa_refresh(force).
CallOaRefresh ==
    /\ \E force \in BOOLEAN :
        StartCall("oa_refresh", force, Frame("oa_refresh", "L184", force))
    /\ UNCHANGED <<credVars, now, inbox, handled, database, banVars, plugVars, config>>

\* _oa_refresh(force) is called on its own.
CallInnerOaRefresh ==
    /\ \E force \in BOOLEAN :
        StartCall("_oa_refresh", force, Frame("_oa_refresh", "L173", force))
    /\ UNCHANGED <<credVars, now, inbox, handled, database, banVars, plugVars, config>>

\* The host polls.
CallGetUnreadMessages ==
    /\ StartCall("get_unread_messages", FALSE, Frame("get_unread_messages", "L192", FALSE))
    /\ UNCHANGED <<credVars, now, inbox, handled, database, banVars, plugVars, config>>

NoBanRun ==
    /\ NoContentRun
    /\ message = Greeting
    /\ toggles = [subreddit_banning_allowed |-> TRUE, user_banning_allowed |-> TRUE]
    /\ calls = <<>>
    /\ banOutcome = "idle"
    /\ banRuns = 0

\* __init__ (lines 76-103). With setup_from_config the refresh token comes
\* from the configuration and line 101 calls factory_reddit; without it the
\* constructor assigns session = None and the subclass assigns the
\* attributes it needs: OA_REFRESH_TOKEN and session, or neither, or one; the
\* configuration is then not read.
Init ==
    /\ NoBanRun
    /\ database = NoDatabaseRows
    /\ inbox = [m \in PollMessages |-> "absent"]
    /\ handled = [m \in PollMessages |-> 0]
    /\ now = 0
    /\ session_token = Unset
    /\ OA_ACCESS_TOKEN = Unset
    /\ OA_VALID_UNTIL = Unassigned
    /\ stats = NoStats
    /\ exc = None
    /\ \/ /\ session = None
          /\ OA_REFRESH_TOKEN = "refresh_token"
          /\ config = CompleteConfig
          /\ stack = <<Frame("factory_reddit", "L133", TRUE)>>
          /\ call = [fn |-> "__init__", force |-> TRUE,
                     pre |-> [session |-> None, session_token |-> Unset,
                              OA_REFRESH_TOKEN |-> "refresh_token",
                              OA_ACCESS_TOKEN |-> Unset, OA_VALID_UNTIL |-> Unassigned,
                              now |-> 0]]
       \/ /\ session \in {None, Reddit}
          /\ OA_REFRESH_TOKEN \in {Unset, "refresh_token"}
          /\ config = CompleteConfig
          /\ stack = <<>>
          /\ call = [fn |-> "none", force |-> FALSE, pre |-> Credential]

\* The steps of _oa_refresh, oa_refresh and factory_reddit, and the clock.
CredentialStep ==
    \/ OaRefreshAsserts
    \/ OaRefreshNoExpiry
    \/ OaRefreshStillValid
    \/ OaRefreshExchange
    \/ OaRefreshExchangeFails
    \/ OaRefreshExchangeDenied
    \/ OaRefreshBindFails
    \/ OaRefreshTry
    \/ OaRefreshTried
    \/ OaRefreshCatch
    \/ OaRefreshPropagate
    \/ OaRefreshAgain
    \/ OaRefreshEnd
    \/ FactoryReddit
    \/ FactoryRedditEnd
    \/ Tick

\* The credential lifecycle: construction, then calls of oa_refresh and
\* _oa_refresh.
Next ==
    \/ CredentialStep
    \/ CallOaRefresh
    \/ CallInnerOaRefresh

Spec == Init /\ [][Next]_vars

\* The message poll: construction, then calls of get_unread_messages.
NextPoll ==
    \/ CredentialStep
    \/ GumRefresh
    \/ GumRefreshed
    \/ GumRefreshRaised
    \/ GumFetch
    \/ GumFetchFails
    \/ GumMark
    \/ GumMarkFails
    \/ GumDispatch
    \/ GumEnd
    \/ Arrive
    \/ CallGetUnreadMessages

SpecPoll == Init /\ [][NextPoll]_vars

\* The construction of a plugin that logs in (is_logged_in is set), from
\* line 91 on, with any configuration.
InitConstruct ==
    /\ NoBanRun
    /\ database = NoDatabaseRows
    /\ inbox = [m \in PollMessages |-> "absent"]
    /\ handled = [m \in PollMessages |-> 0]
    /\ now = 0
    /\ session = None
    /\ session_token = Unset
    /\ OA_REFRESH_TOKEN = Unset
    /\ OA_ACCESS_TOKEN = Unset
    /\ OA_VALID_UNTIL = Unassigned
    /\ stats = NoStats
    /\ exc = None
    /\ config \in [keys : BOOLEAN, refresh_token : {Unset, "refresh_token"}]
    /\ stack = <<Frame("__init__", "L91", TRUE)>>
    /\ call = [fn |-> "__init__", force |-> TRUE, pre |-> Credential]

\* The construction from its first line, and the calls that follow it; or a
\* plugin constructed as in Init.
NextConstruct ==
    \/ Next
    \/ InitIncomplete
    \/ InitFromConfig
    \/ InitBootstrap
    \/ InitBootstrapped
    \/ InitEnd
    \/ GetKeys
    \/ GetKeysFails
    \/ GetKeysPersist
    \/ GetKeysPersistFails
    \/ GetKeysRefresh
    \/ GetKeysEnd

SpecConstruct == (InitConstruct \/ Init) /\ [][NextConstruct]_vars

\* The plugin object at rest while standard_ban_procedure is examined.
NoCallRunning ==
    /\ inbox = [m \in PollMessages |-> "absent"]
    /\ handled = [m \in PollMessages |-> 0]
    /\ now = 0
    /\ session = None
    /\ session_token = Unset
    /\ OA_REFRESH_TOKEN = Unset
    /\ OA_ACCESS_TOKEN = Unset
    /\ OA_VALID_UNTIL = Unassigned
    /\ stats = NoStats
    /\ exc = None
    /\ stack = <<>>
    /\ call = [fn |-> "none", force |-> FALSE, pre |-> Credential]
    /\ config = NoConfig

\* How often the procedure is applied to the same message (a re-delivery).
MaxBanRuns == 2

InitBan ==
    /\ message \in Messages
    /\ toggles \in [subreddit_banning_allowed : BOOLEAN, user_banning_allowed : BOOLEAN]
    /\ database = NoDatabaseRows
    /\ calls = <<>>
    /\ banOutcome = "idle"
    /\ banRuns = 0
    /\ NoCallRunning
    /\ NoContentRun

\* The plugin hands the message to standard_ban_procedure; the platform
\* decides whether the reply succeeds.
StandardBanProcedure ==
    /\ banRuns < MaxBanRuns
    /\ \E replyOk \in BOOLEAN :
        LET r == standard_ban_procedure(message, toggles.subreddit_banning_allowed,
                                        toggles.user_banning_allowed, replyOk)
        IN  /\ calls' = r.calls
            /\ banOutcome' = r.outcome
            /\ database' = ApplyCalls(database, r.calls)
    /\ banRuns' = banRuns + 1
    /\ UNCHANGED <<message, toggles, credVars, now, ctlVars, boxVars, plugVars, config>>

NextBan == StandardBanProcedure

SpecBan == InitBan /\ [][NextBan]_vars

(***************************************************************************)
(* Content handling as a process: things are classified and handled, and   *)
(* posted objects are registered for an update                             *)
(***************************************************************************)
\* How many content operations are followed.
MaxSteps == 2

InitPlugin ==
    /\ db_connected \in BOOLEAN
    /\ storage = {}
    /\ updates = {}
    /\ responses = [t \in Threads |-> 0]
    /\ last = NoOperation
    /\ steps = 0
    /\ message = Greeting
    /\ toggles = [subreddit_banning_allowed |-> TRUE, user_banning_allowed |-> TRUE]
    /\ calls = <<>>
    /\ banOutcome = "idle"
    /\ banRuns = 0
    /\ database = NoDatabaseRows
    /\ NoCallRunning

\* __test_single_thing with LeafeatorBot's handlers: the thing is classified
\* and its handler runs to its end.
TestSingleThing ==
    /\ steps < MaxSteps
    /\ \E thing \in Things, fail \in Failures :
        LET handler == test_single_thing(thing)
            did == Execute(handler, thing, db_connected, storage, fail)
        IN  /\ storage' = storage \cup Done(did.calls, "insert_into_storage")
            /\ responses' = [t \in Threads |->
                    IF Done(did.calls, "_add_comment") # {} /\ t = thing.submission
                    THEN responses[t] + 1 ELSE responses[t]]
            /\ last' = [op |-> "__test_single_thing", thing |-> thing, lifetime |-> 0,
                        handlers |-> <<handler>>, did |-> did]
    /\ steps' = steps + 1
    /\ UNCHANGED <<db_connected, updates, banVars, database, credVars, now, ctlVars,
                   boxVars, config>>

\* A plugin calls to_update with an object it has posted, or with another.
ToUpdate ==
    /\ steps < MaxSteps
    /\ \E response_object \in ResponseObjects, lifetime \in Lifetimes,
          insertOk \in BOOLEAN :
        LET did == to_update(response_object, lifetime, db_connected, insertOk)
        IN  /\ updates' = updates \cup
                    {<<r[1], BOT_NAME, r[2]>> : r \in Done(did.calls, "insert_into_update")}
            /\ last' = [op |-> "to_update", thing |-> response_object,
                        lifetime |-> lifetime, handlers |-> <<>>, did |-> did]
    /\ steps' = steps + 1
    /\ UNCHANGED <<db_connected, storage, responses, banVars, database, credVars, now,
                   ctlVars, boxVars, config>>

NextPlugin ==
    \/ TestSingleThing
    \/ ToUpdate

SpecPlugin == InitPlugin /\ [][NextPlugin]_vars

(***************************************************************************)
(* Properties of standard_ban_procedure                                    *)
(***************************************************************************)
HasPrincipal(msg) == msg.author # None \/ msg.subreddit # None
PrincipalIsHuman(msg) == msg.author # None
PrincipalName(msg) == IF msg.author # None THEN msg.author ELSE msg.subreddit
OwnTypeLetter(msg) == IF PrincipalIsHuman(msg) THEN "u" ELSE "r"

\* The type letter and identifier of the first command in the body.
CommandType(msg) == LowerChar(Search(msg.body)[1])
CommandIdentifier(msg) == Search(msg.body)[2]

StoreCalls == {i \in 1..Len(calls) : calls[i].op # "reply"}

\* The bodies whose first command is "ban /X/Y" with X the principal's own
\* type and Y its own name in any letter case.
OwnCommands(msg) ==
    {Command(S_ban, OwnTypeLetter(msg), y) :
        y \in {id \in Identifiers : Lower(id) = Lower(PrincipalName(msg))}}

FirstCommandIsOwn(msg) ==
    \E c \in OwnCommands(msg) :
        \/ msg.body = c
        \/ msg.body = c \o S_please
        \/ msg.body = c \o <<" ">> \o Command(S_ban, "u", S_bob)

\* C2: a community-ban record is written only for a community principal and
\* command type 'r', a user-ban record only for a human principal and type 'u'.
C2_TypeConsistentRecords ==
    \A i \in StoreCalls :
        /\ Search(message.body) # None
        /\ calls[i].op = "add_subreddit_ban_per_module"
                => ~PrincipalIsHuman(message) /\ CommandType(message) = "r"
        /\ calls[i].op = "add_userban_per_module"
                => PrincipalIsHuman(message) /\ CommandType(message) = "u"

\* C3: a ban record is written only when Y equals the principal's own
\* identifier case-insensitively, the subject of every written record is that
\* principal, and otherwise there is no store write and no reply.
C3_SelfOnly ==
    calls # <<>> =>
        /\ Search(message.body) # None
        /\ Lower(CommandIdentifier(message)) = Lower(PrincipalName(message))
        /\ \A i \in StoreCalls : calls[i].subject = PrincipalName(message)

\* C4: with user_banning_allowed false a human principal's command causes no
\* store write and no reply; with subreddit_banning_allowed false a community
\* principal's command causes none.
C4_TogglesGateIndependently ==
    /\ (PrincipalIsHuman(message) /\ ~toggles.user_banning_allowed) => calls = <<>>
    /\ (HasPrincipal(message) /\ ~PrincipalIsHuman(message)
            /\ ~toggles.subreddit_banning_allowed) => calls = <<>>

\* C5: a comment reply never causes a ban record or a confirming reply.
C5_CommentNeverBans ==
    message.was_comment => calls = <<>> /\ database = NoDatabaseRows

C5_Witness ==
    /\ banRuns > 0
    /\ message.was_comment
    /\ HasPrincipal(message)
    /\ FirstCommandIsOwn(message)
    /\ toggles.user_banning_allowed /\ toggles.subreddit_banning_allowed
    /\ banOutcome = "returned"

\* C6: a top-level message whose first command names the principal's own type
\* and identifier, with both toggles on, causes exactly one store write, of the
\* matching type for that principal under the plugin's name, followed by
\* exactly one reply to the message.
C6_AcceptedOptOut ==
    (/\ banRuns > 0
     /\ ~message.was_comment
     /\ HasPrincipal(message)
     /\ FirstCommandIsOwn(message)
     /\ toggles.user_banning_allowed /\ toggles.subreddit_banning_allowed)
    => /\ Len(calls) = 2
       /\ calls[1] = Call(IF PrincipalIsHuman(message)
                          THEN "add_userban_per_module"
                          ELSE "add_subreddit_ban_per_module",
                          PrincipalName(message), TRUE)
       /\ calls[2].op = "reply" /\ calls[2].subject = PrincipalName(message)
       /\ database =
            IF PrincipalIsHuman(message)
            THEN [userbans |-> {<<PrincipalName(message), BOT_NAME>>},
                  subredditbans |-> {}]
            ELSE [userbans |-> {},
                  subredditbans |-> {<<PrincipalName(message), BOT_NAME>>}]

C6_Witness ==
    /\ banRuns > 0
    /\ ~message.was_comment
    /\ ~PrincipalIsHuman(message) /\ HasPrincipal(message)
    /\ FirstCommandIsOwn(message)
    /\ toggles.user_banning_allowed /\ toggles.subreddit_banning_allowed
    /\ Len(calls) = 2 /\ calls[2].ok

\* The bodies that hold the principal's own command in any letter case of
\* the keyword, the type letter and the identifier.
OwnCommandsAnyCase(msg) ==
    {Command(kw, x, y) :
        kw \in Keywords,
        x \in {t \in TypeLetters : LowerChar(t) = OwnTypeLetter(msg)},
        y \in {id \in Identifiers : Lower(id) = Lower(PrincipalName(msg))}}

\* C12: the command is accepted in any letter case as the lower-case form is:
\* one store call for the principal, then the reply.
C12_CaseInsensitive ==
    (/\ banRuns > 0
     /\ ~message.was_comment
     /\ HasPrincipal(message)
     /\ message.body \in OwnCommandsAnyCase(message)
     /\ toggles.user_banning_allowed /\ toggles.subreddit_banning_allowed)
    => /\ Len(calls) = 2
       /\ calls[1] = Call(IF PrincipalIsHuman(message)
                          THEN "add_userban_per_module"
                          ELSE "add_subreddit_ban_per_module",
                          PrincipalName(message), TRUE)

\* The rows the store calls of the last invocation have written.
RowsOfCalls == ApplyCalls(NoDatabaseRows, calls)

\* C13: the record is written before the reply is attempted, a reply is only
\* attempted for a record that was written, and the record is in the store
\* whether or not the reply went through.
C13_RecordBeforeReply ==
    \A i \in 1..Len(calls) :
        calls[i].op = "reply"
            => /\ i = 2
               /\ calls[1].op # "reply" /\ calls[1].ok
               /\ calls[1].subject = calls[i].subject
               /\ <<calls[1].subject, BOT_NAME>>
                    \in database.userbans \cup database.subredditbans
               /\ RowsOfCalls.userbans \subseteq database.userbans
               /\ RowsOfCalls.subredditbans \subseteq database.subredditbans

C13_Witness ==
    /\ banRuns > 0
    /\ Len(calls) = 2
    /\ calls[2].op = "reply" /\ ~calls[2].ok
    /\ banOutcome = "HTTPException"
    /\ <<calls[1].subject, BOT_NAME>> \in database.userbans

(***************************************************************************)
(* Properties of the credential lifecycle                                  *)
(***************************************************************************)
\* The outermost call fn has ended.
Ended(fn) == stack = <<>> /\ call.fn = fn

\* No call to the platform failed during the outermost call.
NoNetworkFailure == stats.http = 0 /\ stats.other = 0

\* Every token exchange of the outermost call failed with HTTPException.
EveryExchangeFailedTransiently ==
    stats.http = stats.exchanges /\ stats.other = 0

\* C1: when every token exchange fails with a transient error, one call of
\* oa_refresh rebuilds the session at most once.
C1_RebuildsAtMostOnce ==
    (call.fn = "oa_refresh" /\ EveryExchangeFailedTransiently)
        => stats.rebuilds <= 1

\* The credential held a token, an expiry and a session when the call was made.
WasAuthenticated ==
    /\ call.pre.session # None
    /\ call.pre.OA_REFRESH_TOKEN # Unset
    /\ call.pre.OA_ACCESS_TOKEN # Unset
    /\ call.pre.OA_VALID_UNTIL # Unassigned

CredentialUnchanged ==
    /\ OA_ACCESS_TOKEN = call.pre.OA_ACCESS_TOKEN
    /\ OA_VALID_UNTIL = call.pre.OA_VALID_UNTIL
    /\ session_token = call.pre.session_token
    /\ session = call.pre.session

\* C9: with no network failure, _oa_refresh(force=False) on an authenticated
\* credential makes exactly one token exchange when the clock is past the
\* expiry, and none, leaving token, expiry and binding as they were, when the
\* clock is before the expiry.
C9_ExpiryDecidesExchange ==
    (Ended("_oa_refresh") /\ ~call.force /\ WasAuthenticated /\ NoNetworkFailure)
    => /\ exc = None
       /\ stats.t174 # Unassigned
       /\ stats.t174[1] > call.pre.OA_VALID_UNTIL[1] => stats.exchanges = 1
       /\ stats.t174[1] < call.pre.OA_VALID_UNTIL[1]
            => stats.exchanges = 0 /\ CredentialUnchanged

C9_Witness ==
    /\ Ended("_oa_refresh") /\ ~call.force /\ WasAuthenticated /\ NoNetworkFailure
    /\ stats.t174[1] > call.pre.OA_VALID_UNTIL[1]
    /\ stats.exchanges = 1
    /\ OA_ACCESS_TOKEN # call.pre.OA_ACCESS_TOKEN

\* C10: _oa_refresh(force=False) with a refresh token and a session but no
\* access token and no expiry ends with an access token and an expiry set.
C10_RefreshesWithoutToken ==
    (/\ Ended("_oa_refresh") /\ ~call.force /\ NoNetworkFailure
     /\ call.pre.session # None
     /\ call.pre.OA_REFRESH_TOKEN # Unset
     /\ call.pre.OA_ACCESS_TOKEN = Unset
     /\ call.pre.OA_VALID_UNTIL = Unassigned)
    => /\ exc = None
       /\ OA_ACCESS_TOKEN # Unset
       /\ OA_VALID_UNTIL # Unassigned

(***************************************************************************)
(* Properties of the message poll                                          *)
(***************************************************************************)
\* The handler is about to be invoked on m.
AboutToDispatch(m) ==
    Running("get_unread_messages", "L198") /\ Head(Top.msgs) = m

\* C7: a message is marked read before it is handed to the handler, and it
\* stays marked read whatever the handler does.
C7_MarkedBeforeDispatch ==
    \A m \in PollMessages :
        (AboutToDispatch(m) \/ handled[m] > 0) => inbox[m] = "read"

C7_Witness ==
    /\ Ended("get_unread_messages")
    /\ exc = "PluginError"
    /\ \E m \in PollMessages : handled[m] = 1 /\ inbox[m] = "read"

HardFailureOnly == stats.denied > 0 /\ stats.http = 0 /\ stats.other = stats.denied

\* C14 as stated: a poll whose token exchange was denied has rebuilt the
\* session exactly once when it ends.
C14_DeniedRebuildsOnce ==
    (Ended("get_unread_messages") /\ HardFailureOnly) => stats.rebuilds = 1

\* C14: a denied token exchange is not retried and not followed by a session
\* rebuild; the error travels from _oa_refresh through oa_refresh and
\* get_unread_messages to the caller of the poll.
C14_DeniedSurfacesAtOnce ==
    (call.fn = "get_unread_messages" /\ stats.denied > 0)
        => /\ stats.denied = 1
           /\ exc = "OAuthException"
           /\ HardFailureOnly => stats.exchanges = 1 /\ stats.rebuilds = 0

C14_Witness ==
    /\ Ended("get_unread_messages")
    /\ HardFailureOnly
    /\ exc = "OAuthException"
    /\ stats.rebuilds = 0

\* C15: the handler is invoked at most once for any message, also when the
\* poll is re-run after a failure in fetching, marking or dispatching.
C15_AtMostOnce == \A m \in PollMessages : handled[m] <= 1

C15_Witness ==
    /\ Ended("get_unread_messages")
    /\ exc = None
    /\ \E r \in stats.retried :
        /\ r.at = "dispatch"
        /\ \E m \in r.m : handled[m] = 1 /\ inbox[m] = "read"

\* C16: an AssertionError raised by the fetch or by mark_as_read ends the
\* poll normally, and the messages after the failing point stay unread and
\* are not dispatched.
C16_AssertionEndsCycle ==
    (Ended("get_unread_messages") /\ stats.asserted \in {"fetch", "mark"})
        => /\ exc = None
           /\ \A m \in stats.left : inbox[m] = "unread" /\ handled[m] = 0

C16_Witness ==
    /\ Ended("get_unread_messages")
    /\ stats.asserted = "mark"
    /\ stats.left # {}
    /\ \A m \in stats.left : inbox[m] = "unread"
    /\ exc = None

\* C19: a refresh attempt that fails, at the exchange or at binding the token
\* to the session, leaves access token and expiry as they were.
C19_FailedRefreshKeepsCredential ==
    [][stats'.http + stats'.other > stats.http + stats.other
          => /\ OA_ACCESS_TOKEN' = OA_ACCESS_TOKEN
             /\ OA_VALID_UNTIL' = OA_VALID_UNTIL]_vars

(***************************************************************************)
(* Properties of content handling                                          *)
(***************************************************************************)
\* C11: every submission or comment is passed to exactly one handler: a
\* comment to execute_comment, a self post with a body to execute_submission,
\* a self post without one to execute_titlepost, a link post to execute_link.
C11_RoutedToOneHandler ==
    last.op = "__test_single_thing"
        => LET t == last.thing
               post == t.kind = "Submission"
           IN  /\ Len(last.handlers) = 1
               /\ t.kind = "Comment" => last.handlers[1] = "execute_comment"
               /\ (post /\ t.is_self /\ t.selftext # <<>>)
                    => last.handlers[1] = "execute_submission"
               /\ (post /\ t.is_self /\ t.selftext = <<>>)
                    => last.handlers[1] = "execute_titlepost"
               /\ (post /\ ~t.is_self) => last.handlers[1] = "execute_link"

C11_Witness ==
    /\ last.op = "__test_single_thing"
    /\ last.thing.kind = "Submission"
    /\ last.thing.is_self /\ last.thing.selftext = <<>>
    /\ last.handlers = <<"execute_titlepost">>

\* C17: to_update never raises; with a store it records a submission or a
\* comment with the plugin's name and the lifetime, and for another object it
\* writes nothing and logs an error; without a store it writes nothing.
C17_ToUpdateRecords ==
    (/\ last.op = "to_update"
     /\ \A i \in 1..Len(last.did.calls) : last.did.calls[i].ok)
    => LET recorded == last.thing.kind \in {"Submission", "Comment"}
       IN  /\ last.did.outcome = "None"
           /\ (db_connected /\ recorded)
                => <<last.thing.name, BOT_NAME, last.lifetime>> \in updates
           /\ (db_connected /\ ~recorded)
                => last.did.calls = <<>> /\ last.did.logged = <<"error">>
           /\ ~db_connected => last.did.calls = <<>>

\* C20: the plugin has posted at most one response in any thread.
C20_OneResponsePerThread == \A t \in Threads : responses[t] <= 1

(***************************************************************************)
(* Properties of the construction                                          *)
(***************************************************************************)
\* C18: the construction runs _get_keys_manually only when the configuration
\* holds no refresh token; the token it obtains is in the configuration before
\* any token exchange is attempted; and the construction ends normally only
\* with an access token held, the expiry set and the session bound to it.
C18_BootstrapThenAuthenticated ==
    call.fn = "__init__" =>
        /\ Running("_get_keys_manually", "L152") => config.refresh_token = Unset
        /\ stats.bootstraps <= 1
        /\ stats.exchanges > 0
            => config.refresh_token # Unset /\ config.refresh_token = OA_REFRESH_TOKEN
        /\ (stack = <<>> /\ exc = None)
            => /\ OA_ACCESS_TOKEN # Unset
               /\ OA_VALID_UNTIL # Unassigned
               /\ now < OA_VALID_UNTIL[1]
               /\ session = Reddit
               /\ session_token = OA_ACCESS_TOKEN

C18_Witness ==
    /\ Ended("__init__")
    /\ exc = None
    /\ stats.bootstraps = 1
    /\ config.refresh_token = "refresh_token"
    /\ OA_ACCESS_TOKEN # Unset
    /\ session_token = OA_ACCESS_TOKEN

====
